---------------------------- MODULE Spec2Model ----------------------------
(***************************************************************************)
(* A model of the RetailRocket item-to-item recommender:                   *)
(*   src/src/sessions.py     splitting a visitor's events into sessions    *)
(*   src/src/cooccur.py      basket grouping and co-occurrence counting    *)
(*   src/src/rank.py         cosine-style similarity and the blended score *)
(*   src/src/build_index.py  the score graph and the top-K reduction       *)
(*   src/src/config.py       the environment-sourced configuration         *)
(*   src/src/api.py          the serving lookup                            *)
(*                                                                         *)
(* Python dicts are insertion ordered; a dict is modelled as a sequence of *)
(* <<key, value>> pairs with distinct keys.  A Counter is modelled as a    *)
(* total function to Nat (a missing key reads as 0, as Counter does).      *)
(* Scores are real numbers of the form sign * sqrt(n/d); they are kept     *)
(* exactly (IEEE rounding is not modelled).                                *)
(***************************************************************************)
EXTENDS Integers, Sequences, FiniteSets, TLC

(***************************************************************************)
(* Bounds and value sets of the model.                                     *)
(***************************************************************************)
MaxFileRows == 3
DefaultChunkSize == 200000

Items == {10, 20, 30}
SessionIds == {"1_1", "1_2"}
Events == {"view", "addtocart"}
ChunkSizes == {1, 2, DefaultChunkSize}
None == "None"

VARIABLES
    pc,                \* position of the running program
    sessions_file,     \* rows of data/processed/sessions.csv
    chunksize,         \* cooccur_from_sessions_csv: chunksize
    offset,            \* rows of sessions_file already read by pd.read_csv
    chunk,             \* rows of the current (filtered) chunk not yet iterated
    current_session,   \* cooccur_from_sessions_csv: current_session
    items_in_session,  \* cooccur_from_sessions_csv: items_in_session
    item_freq,         \* Counter[int]
    pair_counts,       \* Counter[tuple[int, int]]
    pair_keys,         \* the keys of pair_counts, in insertion order
    flushed,           \* the arguments of the _flush_group calls made so far
    view_item_freq,    \* build_topk: view_item_freq, dict[int, int]
    view_pairs,        \* build_topk: view_pairs, the rows of the pair table
    buy_item_freq,     \* build_topk: buy_item_freq
    buy_pairs,         \* build_topk: buy_pairs
    topk,              \* build_topk: topk
    w_view,            \* build_topk: w_view
    w_buy,             \* build_topk: w_buy
    cursor,            \* rows of the pair table being iterated already consumed
    scores,            \* build_topk: scores, dict[int, dict[int, float]]
    contrib,           \* the locals of the last iteration of a contribution loop
    offered,           \* the scores add_edge has been called with, per ordered pair
    topk_map,          \* build_topk: topk_map, dict[int, list[int]]
    groups,            \* cooccur_from_transactions: the baskets of df.groupby
    env,               \* the environment variables config.py reads
    exists,            \* the files of artefacts/ that exist
    artefacts,         \* the contents of the files of artefacts/
    TOPK,              \* api.py: the global TOPK
    response,          \* api.py: what the last /recommend request returned
    events,            \* build_sessions: events, the rows of the DataFrame
    gap_minutes,       \* build_sessions: gap_minutes
    sessions           \* build_sessions: the DataFrame returned

cooccurVars == <<sessions_file, chunksize, offset, chunk, current_session,
                 items_in_session, flushed>>
counterVars == <<item_freq, pair_counts, pair_keys>>
inputVars == <<view_item_freq, view_pairs, buy_item_freq, buy_pairs, topk, w_view, w_buy>>
buildVars == <<cursor, scores, contrib, offered, topk_map>>
outerVars == <<groups, env, exists, artefacts, TOPK, response>>
sessionVars == <<events, gap_minutes, sessions>>

vars == <<pc, cooccurVars, counterVars, inputVars, buildVars, outerVars, sessionVars>>

(***************************************************************************)
(* Helpers.                                                                *)
(***************************************************************************)
Min(a, b) == IF a <= b THEN a ELSE b

SetMin(S) == CHOOSE x \in S : \A y \in S : x <= y

RECURSIVE SortedSeq_Mut(_)
SortedSeq_Mut(S) ==
    IF S = {} THEN <<>> ELSE SortedSeq_Mut(S \ {SetMin(S)}) \o <<SetMin(S)>>

RECURSIVE SortedSeq(_)
\* sorted(S) for a set of integers: ascending
SortedSeq(S) == IF S = {} THEN <<>> ELSE <<SetMin(S)>> \o SortedSeq(S \ {SetMin(S)})

Range(seq) == {seq[i] : i \in 1..Len(seq)}

RECURSIVE Combinations_Mut(_)
Combinations_Mut(seq) ==
    IF seq = <<>> THEN <<>>
    ELSE [j \in 1..Len(seq) |-> <<seq[1], seq[j]>>] \o Combinations_Mut(Tail(seq))

RECURSIVE Combinations(_)
\* itertools.combinations(seq, 2): the pairs (seq[i], seq[j]) with i < j, in
\* lexicographic order of (i, j)
Combinations(seq) ==
    IF Len(seq) < 2 THEN <<>>
    ELSE [j \in 1..(Len(seq) - 1) |-> <<seq[1], seq[j + 1]>>] \o Combinations(Tail(seq))

SeqsUpTo(S, n) == UNION {[1..k -> S] : k \in 0..n}

(***************************************************************************)
(* cooccur.py: _flush_group                                                *)
(***************************************************************************)
EmptyItemFreq == [it \in Items |-> 0]
EmptyPairCounts == [p \in Items \X Items |-> 0]

\* lines 20-25: item_freq[it] += 1 for each item of the group
FlushItemFreq(items_in_group, freq) ==
    IF items_in_group = {} THEN freq
    ELSE [it \in Items |-> IF it \in items_in_group THEN freq[it] + 1 ELSE freq[it]]

\* lines 20-21, 29-31: pair_counts[(a, b)] += 1 over combinations(sorted(group), 2)
FlushPairCounts(items_in_group, pairs) ==
    IF items_in_group = {} THEN pairs
    ELSE LET items_sorted == SortedSeq(items_in_group)
         IN  [p \in Items \X Items |->
                 IF p \in Range(Combinations(items_sorted)) THEN pairs[p] + 1
                 ELSE pairs[p]]

\* the keys of pair_counts in insertion order: a Counter is a dict, and line 31
\* inserts a key the first time its pair is counted
FlushPairKeys(items_in_group, keys) ==
    keys \o SelectSeq(Combinations(SortedSeq(items_in_group)),
                      LAMBDA p : p \notin Range(keys))

(***************************************************************************)
(* Values of variables a specification does not use.                       *)
(***************************************************************************)
CooccurIdle ==
    /\ sessions_file = <<>>
    /\ chunksize = DefaultChunkSize
    /\ offset = 0
    /\ chunk = <<>>
    /\ current_session = None
    /\ items_in_session = {}
    /\ flushed = <<>>

CountersEmpty ==
    /\ item_freq = EmptyItemFreq
    /\ pair_counts = EmptyPairCounts
    /\ pair_keys = <<>>

NoBuildInputs ==
    /\ view_item_freq = <<>>
    /\ view_pairs = <<>>
    /\ buy_item_freq = <<>>
    /\ buy_pairs = <<>>
    /\ topk = 0
    /\ w_view = [sg |-> 0, n |-> 0, d |-> 1]
    /\ w_buy = [sg |-> 0, n |-> 0, d |-> 1]

BuildIdle ==
    /\ cursor = 0
    /\ scores = <<>>
    /\ contrib = <<>>
    /\ offered = <<>>
    /\ topk_map = <<>>

NoFiles ==
    [view_item_freq |-> <<>>, view_pair_counts |-> <<>>, buy_item_freq |-> <<>>,
     buy_pair_counts |-> <<>>, topk_json |-> <<>>, topk_preview |-> <<>>]

SessionsIdle ==
    /\ events = <<>>
    /\ gap_minutes = 0
    /\ sessions = <<>>

OuterIdle ==
    /\ groups = <<>>
    /\ env = <<>>
    /\ exists = {}
    /\ artefacts = NoFiles
    /\ TOPK = <<>>
    /\ response = <<>>

(***************************************************************************)
(* cooccur.py: cooccur_from_sessions_csv                                   *)
(***************************************************************************)
SessionRows == [session_id : SessionIds, event : Events, itemid : Items]

IsView(row) == row.event = "view"

\* line 57: chunk = chunk[chunk["event"] == "view"]
KeepViews_Mut(rows) == rows
KeepViews(rows) == SelectSeq(rows, IsView)

InitCooccur ==
    /\ pc = "chunks"
    /\ sessions_file \in SeqsUpTo(SessionRows, MaxFileRows)
    /\ chunksize \in ChunkSizes
    /\ offset = 0
    /\ chunk = <<>>
    /\ current_session = None
    /\ items_in_session = {}
    /\ item_freq = EmptyItemFreq
    /\ pair_counts = EmptyPairCounts
    /\ pair_keys = <<>>
    /\ flushed = <<>>
    /\ NoBuildInputs
    /\ BuildIdle
    /\ SessionsIdle
    /\ OuterIdle

ReadChunk_Mut ==
    /\ pc = "chunks"
    /\ chunk = <<>>
    /\ offset < Len(sessions_file)
    /\ LET last == Min(offset + chunksize, Len(sessions_file))
       IN  /\ chunk' = KeepViews(SubSeq(sessions_file, offset + 1, last))
           /\ offset' = last
    /\ current_session' = None
    /\ items_in_session' = {}
    /\ UNCHANGED <<pc, sessions_file, chunksize, flushed, counterVars, inputVars, buildVars,
                   outerVars, sessionVars>>

\* line 55: the reader hands out the next chunksize rows; line 57 filters them
ReadChunk ==
    /\ pc = "chunks"
    /\ chunk = <<>>
    /\ offset < Len(sessions_file)
    /\ LET last == Min(offset + chunksize, Len(sessions_file))
       IN  /\ chunk' = KeepViews(SubSeq(sessions_file, offset + 1, last))
           /\ offset' = last
    /\ UNCHANGED <<pc, sessions_file, chunksize, current_session, items_in_session,
                   flushed, counterVars, inputVars, buildVars, outerVars, sessionVars>>

\* lines 59-72: one iteration of the row loop
ProcessRow ==
    /\ pc = "chunks"
    /\ chunk # <<>>
    /\ LET row == Head(chunk)
           session_id == row.session_id
           itemid == row.itemid
           cur == IF current_session = None THEN session_id ELSE current_session
       IN  IF session_id # cur
           THEN /\ item_freq' = FlushItemFreq(items_in_session, item_freq)
                /\ pair_counts' = FlushPairCounts(items_in_session, pair_counts)
                /\ pair_keys' = FlushPairKeys(items_in_session, pair_keys)
                /\ flushed' = Append(flushed, items_in_session)
                /\ items_in_session' = {itemid}
                /\ current_session' = session_id
           ELSE /\ items_in_session' = items_in_session \cup {itemid}
                /\ current_session' = cur
                /\ UNCHANGED <<item_freq, pair_counts, pair_keys, flushed>>
    /\ chunk' = Tail(chunk)
    /\ UNCHANGED <<pc, sessions_file, chunksize, offset, inputVars, buildVars, outerVars,
                   sessionVars>>

\* lines 74-77: the reader is exhausted; flush the final session and return
FinalFlush ==
    /\ pc = "chunks"
    /\ chunk = <<>>
    /\ offset >= Len(sessions_file)
    /\ item_freq' = FlushItemFreq(items_in_session, item_freq)
    /\ pair_counts' = FlushPairCounts(items_in_session, pair_counts)
    /\ pair_keys' = FlushPairKeys(items_in_session, pair_keys)
    /\ flushed' = Append(flushed, items_in_session)
    /\ pc' = "returned"
    /\ UNCHANGED <<sessions_file, chunksize, offset, chunk, current_session,
                   items_in_session, inputVars, buildVars, outerVars, sessionVars>>

NextCooccur == ReadChunk \/ ProcessRow \/ FinalFlush

SpecCooccur == InitCooccur /\ [][NextCooccur]_vars

(***************************************************************************)
(* Claims about the aggregator.                                            *)
(***************************************************************************)
\* the basket handed to the _flush_group call a step makes
FlushedBasket == flushed'[Len(flushed')]

InBasket(S, basket) == IF S \subseteq basket THEN 1 ELSE 0

\* C1: one call of _flush_group on a basket of n items adds exactly 1 to
\* item_freq of each of the n items and exactly 1 to pair_counts of each of the
\* C(n,2) pairs (a, b), a < b, of basket items, and changes no other entry.
C1_FlushGroupCounts ==
    [][flushed' # flushed =>
         LET basket == FlushedBasket
             n == Cardinality(basket)
         IN  /\ \A it \in Items :
                    item_freq'[it] = item_freq[it] + InBasket({it}, basket)
             /\ \A a \in Items, b \in Items :
                    pair_counts'[<<a, b>>] = pair_counts[<<a, b>>]
                        + (IF a < b THEN InBasket({a, b}, basket) ELSE 0)
             /\ Cardinality({it \in Items : item_freq'[it] # item_freq[it]}) = n
             /\ 2 * Cardinality({p \in Items \X Items : pair_counts'[p] # pair_counts[p]})
                    = n * (n - 1)]_vars

\* a basket of two items was flushed onto counters that already held counts
C1_Witness ==
    /\ Len(flushed) = 2
    /\ flushed[1] # {}
    /\ Cardinality(flushed[2]) = 2
    /\ \E p \in Items \X Items : pair_counts[p] = 1

\* the rows of a stream whose event is 'view'
ViewRowsOf(rows) == SelectSeq(rows, LAMBDA r : r.event = "view")

\* the view rows of the stream that lie before the row loop's position
ViewRowsDone ==
    LET seen == ViewRowsOf(SubSeq(sessions_file, 1, offset))
    IN  SubSeq(seen, 1, Len(seen) - Len(ViewRowsOf(chunk)))

\* all rows of one session key are adjacent
Contiguous(rows) ==
    \A i \in 1..Len(rows), k \in 1..Len(rows) :
        (i < k /\ rows[i].session_id = rows[k].session_id)
            => \A j \in i..k : rows[j].session_id = rows[i].session_id

RECURSIVE KeysInOrder(_)
\* the distinct session keys of rows, in order of first appearance
KeysInOrder(rows) ==
    IF rows = <<>> THEN <<>>
    ELSE LET front == KeysInOrder(SubSeq(rows, 1, Len(rows) - 1))
             key == rows[Len(rows)].session_id
         IN  IF \E i \in 1..Len(front) : front[i] = key THEN front
             ELSE Append(front, key)

ItemsViewedUnder(rows, key) ==
    {rows[i].itemid : i \in {j \in 1..Len(rows) : rows[j].session_id = key}}

\* one basket per key, in key order: the items viewed under that key
BasketsOf(rows) ==
    [i \in 1..Len(KeysInOrder(rows)) |-> ItemsViewedUnder(rows, KeysInOrder(rows)[i])]

IsNonEmpty(S) == S # {}

\* C6: on a stream whose rows of one session key are contiguous (it is enough
\* that its view rows are), the baskets flushed are, one per session key with a view row and in key order, the sets
\* of items viewed under that key: while rows are iterated every key but the
\* current one has been flushed, and at return the last one has been too.
\* Non-view rows are in no basket and close none.
C6_OneBasketPerSession ==
    Contiguous(ViewRowsOf(sessions_file)) =>
        LET done == ViewRowsDone
            all == BasketsOf(done)
        IN  /\ pc = "chunks" =>
                  flushed = SubSeq(all, 1, Len(all) - (IF done = <<>> THEN 0 ELSE 1))
            /\ pc = "returned" =>
                  /\ SelectSeq(flushed, IsNonEmpty) = BasketsOf(ViewRowsOf(sessions_file))
                  /\ Len(flushed) = Len(all) + (IF done = <<>> THEN 1 ELSE 0)
                  /\ items_in_session = (IF done = <<>> THEN {} ELSE all[Len(all)])

\* two sessions were flushed, and a non-view row lay inside the first
C6_Witness ==
    /\ pc = "returned"
    /\ Contiguous(sessions_file)
    /\ Len(sessions_file) = 3
    /\ sessions_file[2].event # "view"
    /\ sessions_file[2].session_id = sessions_file[1].session_id
    /\ Len(flushed) = 2
    /\ flushed[1] # {} /\ flushed[2] # {}

RECURSIVE RunBaskets(_)
\* the item sets of the maximal runs of rows of one session key, in stream order
RunBaskets(rows) ==
    IF rows = <<>> THEN <<>>
    ELSE LET front == RunBaskets(SubSeq(rows, 1, Len(rows) - 1))
             last == rows[Len(rows)]
         IN  IF Len(rows) > 1 /\ rows[Len(rows) - 1].session_id = last.session_id
             THEN [front EXCEPT ![Len(front)] = @ \cup {last.itemid}]
             ELSE Append(front, {last.itemid})

\* the number of baskets that hold all the items of S
CountOf(baskets, S) == Cardinality({i \in 1..Len(baskets) : S \subseteq baskets[i]})

\* C16: what cooccur_from_sessions_csv returns is determined by the rows alone,
\* whatever the chunksize >= 1: the baskets counted are the runs of view rows of
\* one session key in the whole stream, and the item frequencies and pair counts
\* are the counts over those baskets.  A run that spans a chunk boundary, or
\* that has a chunk with no view row inside it, is one basket.
C16_ChunkingIndependent ==
    pc = "returned" =>
        LET runs == RunBaskets(ViewRowsOf(sessions_file))
        IN  /\ SelectSeq(flushed, IsNonEmpty) = runs
            /\ \A it \in Items : item_freq[it] = CountOf(runs, {it})
            /\ \A a \in Items, b \in Items :
                   pair_counts[<<a, b>>] = IF a < b THEN CountOf(runs, {a, b}) ELSE 0
            /\ \A i \in 1..Len(pair_keys) : pair_counts[pair_keys[i]] > 0
            /\ Cardinality(Range(pair_keys)) = Len(pair_keys)

\* with one row per chunk, a session of two view rows with a non-view row
\* between them was counted as one basket
C16_Witness ==
    /\ pc = "returned"
    /\ chunksize = 1
    /\ Len(sessions_file) = 3
    /\ sessions_file[1].event = "view"
    /\ sessions_file[2].event # "view"
    /\ sessions_file[3].event = "view"
    /\ sessions_file[1].session_id = sessions_file[3].session_id
    /\ sessions_file[1].itemid # sessions_file[3].itemid
    /\ Len(flushed) = 1
    /\ Cardinality(flushed[1]) = 2
    /\ \E p \in Items \X Items : pair_counts[p] = 1

(***************************************************************************)
(* Floats.  Every float the program computes is sg * sqrt(n / d) for       *)
(* integers sg in {-1, 0, 1}, n >= 0, d > 0; it is kept in lowest terms,   *)
(* so two floats are equal exactly when their records are.  Raised stands  *)
(* for an exception raised instead of a value.                             *)
(***************************************************************************)
RECURSIVE GCD(_, _)
GCD(a, b) == IF b = 0 THEN a ELSE GCD(b, a % b)

Sign(k) == IF k > 0 THEN 1 ELSE IF k < 0 THEN -1 ELSE 0

Real(sg, n, d) ==
    IF sg = 0 \/ n = 0 THEN [sg |-> 0, n |-> 0, d |-> 1]
    ELSE [sg |-> sg, n |-> n \div GCD(n, d), d |-> d \div GCD(n, d)]

Zero == Real(0, 0, 1)

Raised == [sg |-> 2, n |-> 0, d |-> 0]

IsRaised(x) == x.sg = 2

\* float(k) of an integer k
Float(k) == Real(Sign(k), k * k, 1)

\* the float p / q of integers p and q, q > 0
Ratio(p, q) == Real(Sign(p), p * p, q * q)

\* x > y
Gt(x, y) ==
    IF x.sg # y.sg THEN x.sg > y.sg
    ELSE IF x.sg = 1 THEN x.n * y.d > y.n * x.d
    ELSE IF x.sg = -1 THEN x.n * y.d < y.n * x.d
    ELSE FALSE

\* x * y
Mul(x, y) == Real(x.sg * y.sg, x.n * y.n, x.d * y.d)

\* x / y: ZeroDivisionError when y is 0
Div(x, y) == IF y.sg = 0 THEN Raised ELSE Real(x.sg * y.sg, x.n * y.d, x.d * y.n)

\* math.sqrt(float(a) * float(b)): ValueError when the product is negative
SqrtOfProduct(a, b) == IF a * b < 0 THEN Raised ELSE Real(Sign(a * b), a * b, 1)

ISqrt(k) == CHOOSE r \in 0..k : r * r = k

\* x + y.  A sum of two surds is of the form sg * sqrt(n / d) when one of them
\* is 0 or their product is rational; the program adds no other two floats.
Add(x, y) ==
    IF x.sg = 0 THEN y
    ELSE IF y.sg = 0 THEN x
    ELSE LET cross == x.n * y.n * x.d * y.d
             r == ISqrt(cross)
             sum == x.n * y.d + y.n * x.d
         IN  IF x.sg = y.sg THEN Real(x.sg, sum + 2 * r, x.d * y.d)
             ELSE Real(IF Gt(Real(1, x.n, x.d), Real(1, y.n, y.d)) THEN x.sg ELSE y.sg,
                       sum - 2 * r, x.d * y.d)

(***************************************************************************)
(* rank.py                                                                 *)
(***************************************************************************)
cosine_style_sim_Mut(count_ab, freq_a, freq_b) ==
    IF count_ab <= 0 THEN Zero
    ELSE Div(Float(count_ab), SqrtOfProduct(freq_a, freq_b))

cosine_style_sim_NoSqrt(count_ab, freq_a, freq_b) ==
    IF count_ab <= 0 THEN Zero
    ELSE IF freq_a <= 0 \/ freq_b <= 0 THEN Zero
    ELSE Div(Float(count_ab), Float(freq_a * freq_b))

cosine_style_sim(count_ab, freq_a, freq_b) ==
    IF count_ab <= 0 THEN Zero
    ELSE IF freq_a <= 0 \/ freq_b <= 0 THEN Zero
    ELSE Div(Float(count_ab), SqrtOfProduct(freq_a, freq_b))

final_score_Mut(view_sim, buy_sim, wv, wb) ==
    Add(Mul(wv, view_sim), Mul(wv, buy_sim))

final_score(view_sim, buy_sim, wv, wb) ==
    Add(Mul(wv, view_sim), Mul(wb, buy_sim))

(***************************************************************************)
(* Python dicts and list slices.                                           *)
(***************************************************************************)
DictKeys(dict) == {dict[i][1] : i \in 1..Len(dict)}

DictIndex(dict, key) == CHOOSE i \in 1..Len(dict) : dict[i][1] = key

\* dict.get(key, default)
DictGet(dict, key, default) ==
    IF key \in DictKeys(dict) THEN dict[DictIndex(dict, key)][2] ELSE default

\* dict[key] = value: a new key goes last, an old key keeps its place
DictSet(dict, key, value) ==
    IF key \in DictKeys(dict)
    THEN [dict EXCEPT ![DictIndex(dict, key)] = <<key, value>>]
    ELSE Append(dict, <<key, value>>)

\* dict.setdefault(key, value)
DictSetDefault(dict, key, value) ==
    IF key \in DictKeys(dict) THEN dict ELSE Append(dict, <<key, value>>)

\* list[:k]
SliceTo(list, k) ==
    IF k >= 0 THEN SubSeq(list, 1, Min(k, Len(list)))
    ELSE SubSeq(list, 1, Len(list) + k)

(***************************************************************************)
(* build_index.py: build_topk                                              *)
(***************************************************************************)
\* lines 45-51
add_edge_Mut(graph, a, b, score) ==
    IF ~Gt(score, Zero) THEN graph
    ELSE LET with_a == DictSetDefault(graph, a, <<>>)
             neigh == DictGet(with_a, a, <<>>)
         IN  DictSet(with_a, a, DictSet(neigh, b, score))

add_edge_MutKey(graph, a, b, score) ==
    LET with_a == DictSetDefault(graph, a, <<>>)
        neigh == DictGet(with_a, a, <<>>)
        prev == DictGet(neigh, b, Zero)
    IN  IF Gt(score, prev) THEN DictSet(with_a, a, DictSet(neigh, b, score))
        ELSE with_a

add_edge_MutOneWay(graph, a, b, score) ==
    IF ~Gt(score, Zero) \/ a > b THEN graph
    ELSE LET with_a == DictSetDefault(graph, a, <<>>)
             neigh == DictGet(with_a, a, <<>>)
             prev == DictGet(neigh, b, Zero)
         IN  IF Gt(score, prev) THEN DictSet(with_a, a, DictSet(neigh, b, score))
             ELSE with_a

add_edge(graph, a, b, score) ==
    IF ~Gt(score, Zero) THEN graph
    ELSE LET with_a == DictSetDefault(graph, a, <<>>)
             neigh == DictGet(with_a, a, <<>>)
             prev == DictGet(neigh, b, Zero)
         IN  IF Gt(score, prev) THEN DictSet(with_a, a, DictSet(neigh, b, score))
             ELSE with_a

\* lines 59-60: view_item_freq.get(item, 0)
ViewFreq(item) == DictGet(view_item_freq, item, 0)

\* lines 74-75: buy_item_freq.get(item, 0)
BuyFreq(item) == DictGet(buy_item_freq, item, 0)

\* add_edge was called with score for the ordered pair (a, b)
Offer(log, a, b, score) == DictSet(log, <<a, b>>, DictGet(log, <<a, b>>, {}) \cup {score})

\* lines 54-66 and 69-80: one iteration of a contribution loop, on one row of
\* the signal's pair table
Contribute(signal, r, fa, fb, sim, s) ==
    /\ contrib' = <<[signal |-> signal, a |-> r.item_i, b |-> r.item_j, c |-> r.count,
                     fa |-> fa, fb |-> fb, sim |-> sim, s |-> s]>>
    /\ IF IsRaised(sim)
       THEN /\ pc' = "raised"
            /\ UNCHANGED <<cursor, scores, offered>>
       ELSE /\ scores' = add_edge(add_edge(scores, r.item_i, r.item_j, s),
                                  r.item_j, r.item_i, s)
            /\ offered' = Offer(Offer(offered, r.item_i, r.item_j, s),
                                r.item_j, r.item_i, s)
            /\ cursor' = cursor + 1
            /\ UNCHANGED pc
    /\ UNCHANGED <<topk_map, cooccurVars, counterVars, inputVars, outerVars, sessionVars>>

\* lines 54-66
ViewRow ==
    /\ pc = "view_pass"
    /\ cursor < Len(view_pairs)
    /\ LET r == view_pairs[cursor + 1]
           fa == ViewFreq(r.item_i)
           fb == ViewFreq(r.item_j)
           v == cosine_style_sim(r.count, fa, fb)
           s == IF IsRaised(v) THEN v ELSE final_score(v, Zero, w_view, w_buy)
       IN  Contribute("view", r, fa, fb, v, s)

\* line 54 exhausted, line 69 starts
ViewPassDone ==
    /\ pc = "view_pass"
    /\ cursor = Len(view_pairs)
    /\ pc' = "buy_pass"
    /\ cursor' = 0
    /\ UNCHANGED <<scores, contrib, offered, topk_map, cooccurVars, counterVars, inputVars, outerVars,
                   sessionVars>>

\* lines 69-80
BuyRow ==
    /\ pc = "buy_pass"
    /\ cursor < Len(buy_pairs)
    /\ LET r == buy_pairs[cursor + 1]
           fa == BuyFreq(r.item_i)
           fb == BuyFreq(r.item_j)
           bsim == cosine_style_sim(r.count, fa, fb)
           s == IF IsRaised(bsim) THEN bsim ELSE final_score(Zero, bsim, w_view, w_buy)
       IN  Contribute("buy", r, fa, fb, bsim, s)

RECURSIVE SortedByScoreDesc_Mut(_)
SortedByScoreDesc_Mut(entries) ==
    IF entries = <<>> THEN <<>>
    ELSE LET best == CHOOSE i \in 1..Len(entries) :
                         /\ \A j \in 1..Len(entries) : ~Gt(entries[j][2], entries[i][2])
                         /\ \A j \in (i + 1)..Len(entries) : Gt(entries[i][2], entries[j][2])
         IN  <<entries[best]>>
                 \o SortedByScoreDesc_Mut(SubSeq(entries, 1, best - 1)
                                            \o SubSeq(entries, best + 1, Len(entries)))

RECURSIVE SortedByScoreDesc(_)
\* sorted(neigh.items(), key=lambda x: x[1], reverse=True): descending by score,
\* stable, so entries of equal score keep their dict order
SortedByScoreDesc(entries) ==
    IF entries = <<>> THEN <<>>
    ELSE LET best == CHOOSE i \in 1..Len(entries) :
                         /\ \A j \in 1..Len(entries) : ~Gt(entries[j][2], entries[i][2])
                         /\ \A j \in 1..(i - 1) : Gt(entries[i][2], entries[j][2])
         IN  <<entries[best]>>
                 \o SortedByScoreDesc(SubSeq(entries, 1, best - 1)
                                        \o SubSeq(entries, best + 1, Len(entries)))

\* lines 87-89, for one item of scores
TopKOf_Mut(neigh, k) == [i \in 1..Len(neigh) |-> neigh[i][1]]
TopKOf(neigh, k) ==
    LET sorted_items == SliceTo(SortedByScoreDesc(neigh), k)
    IN  [i \in 1..Len(sorted_items) |-> sorted_items[i][1]]

\* lines 83-91: the buy rows are exhausted; convert scores to the top-K lists
Reduce ==
    /\ pc = "buy_pass"
    /\ cursor = Len(buy_pairs)
    /\ topk_map' = [i \in 1..Len(scores) |-> <<scores[i][1], TopKOf(scores[i][2], topk)>>]
    /\ pc' = "built"
    /\ UNCHANGED <<cursor, scores, contrib, offered, cooccurVars, counterVars, inputVars, outerVars,
                   sessionVars>>

(***************************************************************************)
(* build_topk on pair tables and frequency tables as loaded from the       *)
(* artefact files, with a valid configuration.                             *)
(***************************************************************************)
MaxPairRows == 2

Counts == {0, 1, 2}
TopKs == {1, 2}
ViewWeights == {0, 1}
BuyWeights == {0, 3}

\* rows of a pair table as cooccur.py writes them: item_i < item_j
PairRows == {r \in [item_i : Items, item_j : Items, count : Counts] : r.item_i < r.item_j}

ViewFreqTables ==
    { <<<<10, 2>>, <<20, 3>>, <<30, 2>>>>,
      <<<<10, 1>>, <<20, 1>>, <<30, 4>>>>,
      <<<<10, 1>>, <<20, 0>>>> }

BuyFreqTables ==
    { <<<<10, 1>>, <<20, 1>>, <<30, 1>>>>,
      <<<<20, 2>>, <<30, 2>>>> }

InitBuild ==
    /\ pc = "view_pass"
    /\ view_item_freq \in ViewFreqTables
    /\ buy_item_freq \in BuyFreqTables
    /\ view_pairs \in SeqsUpTo(PairRows, MaxPairRows)
    /\ buy_pairs \in SeqsUpTo(PairRows, MaxPairRows - Len(view_pairs))
    /\ topk \in TopKs
    /\ w_view \in {Float(w) : w \in ViewWeights}
    /\ w_buy \in {Float(w) : w \in BuyWeights}
    /\ BuildIdle
    /\ SessionsIdle
    /\ CooccurIdle
    /\ CountersEmpty
    /\ OuterIdle

(***************************************************************************)
(* tests/test_rank_small.py: direct calls of the two functions of rank.py. *)
(***************************************************************************)
RankArgs == {-1, 0, 1, 2, 10, 25, 100}
SimArgs == {Zero, Ratio(1, 2), Float(1)}
WeightArgs == {Float(-1), Zero, Float(1), Float(3)}

InitRankTest ==
    /\ pc = "test_rank"
    /\ NoBuildInputs
    /\ BuildIdle
    /\ SessionsIdle
    /\ OuterIdle
    /\ CooccurIdle
    /\ CountersEmpty

\* test_cosine_style_sim_basic, on any arguments
TestCosine ==
    /\ pc = "test_rank"
    /\ \E count_ab \in RankArgs, freq_a \in RankArgs, freq_b \in RankArgs :
           LET sim == cosine_style_sim(count_ab, freq_a, freq_b)
           IN  /\ contrib' = <<[signal |-> "test_cosine", c |-> count_ab,
                                fa |-> freq_a, fb |-> freq_b, sim |-> sim]>>
               /\ pc' = IF IsRaised(sim) THEN "raised" ELSE pc
    /\ UNCHANGED <<cursor, scores, offered, topk_map, cooccurVars, counterVars, inputVars, outerVars,
                   sessionVars>>

\* test_final_score_weights, on any arguments
TestFinal ==
    /\ pc = "test_rank"
    /\ \E view_sim \in SimArgs, buy_sim \in SimArgs, wv \in WeightArgs, wb \in WeightArgs :
           contrib' = <<[signal |-> "test_final", view_sim |-> view_sim,
                         buy_sim |-> buy_sim, wv |-> wv, wb |-> wb,
                         s |-> final_score(view_sim, buy_sim, wv, wb)]>>
    /\ UNCHANGED <<pc, cursor, scores, offered, topk_map, cooccurVars, counterVars,
                   inputVars, outerVars, sessionVars>>

NextBuild == ViewRow \/ ViewPassDone \/ BuyRow \/ Reduce \/ TestCosine \/ TestFinal

SpecBuild == (InitBuild \/ InitRankTest) /\ [][NextBuild]_vars

(***************************************************************************)
(* Claims about build_topk and rank.py.                                    *)
(***************************************************************************)
\* the score graph holds an edge a -> b
HasEdge(a, b) == \E i \in 1..Len(scores) :
                     /\ scores[i][1] = a
                     /\ \E j \in 1..Len(scores[i][2]) : scores[i][2][j][1] = b

\* the score stored for the edge a -> b
Stored(a, b) ==
    LET i == CHOOSE i \in 1..Len(scores) : scores[i][1] = a
        j == CHOOSE j \in 1..Len(scores[i][2]) : scores[i][2][j][1] = b
    IN  scores[i][2][j][2]

\* the positive scores add_edge has been called with for a -> b
PositiveOffers(a, b) ==
    UNION {{x \in offered[i][2] : x.sg = 1} : i \in {j \in 1..Len(offered) : offered[j][1] = <<a, b>>}}

\* x >= y, on squares: sg * sqrt(n / d)
AtLeast(x, y) ==
    \/ x.sg > y.sg
    \/ x.sg = y.sg /\ x.sg = 0
    \/ x.sg = y.sg /\ x.sg = 1 /\ x.n * y.d >= y.n * x.d
    \/ x.sg = y.sg /\ x.sg = -1 /\ x.n * y.d <= y.n * x.d

\* C2: whatever add_edge calls were made for an ordered pair (a, b), in the view
\* pass, the buy pass or both, the stored score is the maximum of the positive
\* scores offered (one of them, and no smaller than any of them; so not their
\* sum, and a repeated or lower offer changes nothing); with no positive offer
\* there is no edge.
C2_StoredIsMaxOffered ==
    \A a \in Items, b \in Items :
        IF PositiveOffers(a, b) = {} THEN ~HasEdge(a, b)
        ELSE /\ HasEdge(a, b)
             /\ Stored(a, b) \in PositiveOffers(a, b)
             /\ \A x \in PositiveOffers(a, b) : AtLeast(Stored(a, b), x)

\* the buy pass offered a positive score lower than the one the view pass stored
C2_Witness ==
    /\ pc = "built"
    /\ contrib # <<>>
    /\ contrib[1].signal = "buy"
    /\ contrib[1].s.sg = 1
    /\ HasEdge(contrib[1].a, contrib[1].b)
    /\ Stored(contrib[1].a, contrib[1].b) # contrib[1].s
    /\ Cardinality(PositiveOffers(contrib[1].a, contrib[1].b)) = 2

Neighbours(a) == {b \in Items : HasEdge(a, b)}

\* C3: for K >= 1, every list of the returned map has min(K, number of
\* neighbours) entries, so at most K; no target twice; targets in non-increasing
\* order of stored score; and no neighbour left out scores higher than one kept.
C3_TopKLists ==
    (pc = "built" /\ topk >= 1) =>
        \A i \in 1..Len(topk_map) :
            LET item == topk_map[i][1]
                list == topk_map[i][2]
            IN  /\ Len(list) <= topk
                /\ Len(list) = Min(topk, Cardinality(Neighbours(item)))
                /\ \A j \in 1..Len(list) : list[j] \in Neighbours(item)
                /\ \A j \in 1..Len(list), k \in 1..Len(list) : j # k => list[j] # list[k]
                /\ \A j \in 1..Len(list), k \in 1..Len(list) :
                       j < k => AtLeast(Stored(item, list[j]), Stored(item, list[k]))
                /\ \A b \in Neighbours(item) \ Range(list), k \in 1..Len(list) :
                       AtLeast(Stored(item, list[k]), Stored(item, b))

\* K = 1 cut a list of two neighbours, and the one kept was inserted second
C3_Witness ==
    /\ pc = "built"
    /\ topk = 1
    /\ \E i \in 1..Len(scores) :
           /\ Len(scores[i][2]) = 2
           /\ scores[i][2][1][2] # scores[i][2][2][2]
           /\ topk_map[i] = <<scores[i][1], <<scores[i][2][2][1]>>>>

\* C4: with K >= 1 and non-negative weights, at every point of the build an item
\* is a key of the score graph, and at return a key of the map, exactly when a
\* score > 0 was contributed for an edge leaving it; no key maps to an empty
\* dict or list.  A contribution of score <= 0 adds neither an edge nor a key.
C4_KeysHavePositiveEdges ==
    (topk >= 1 /\ w_view.sg >= 0 /\ w_buy.sg >= 0) =>
        /\ \A a \in Items :
               (\E i \in 1..Len(scores) : scores[i][1] = a)
                   <=> (\E b \in Items : PositiveOffers(a, b) # {})
        /\ \A i \in 1..Len(scores) : scores[i][2] # <<>>
        /\ pc = "built" =>
               /\ \A a \in Items :
                      (\E i \in 1..Len(topk_map) : topk_map[i][1] = a)
                          <=> (\E b \in Items : PositiveOffers(a, b) # {})
               /\ \A i \in 1..Len(topk_map) : topk_map[i][2] # <<>>

\* the last pair row had a positive count but a frequency missing from the
\* table, and its items got no key, while another row made keys
C4_Witness ==
    /\ pc = "built"
    /\ topk_map # <<>>
    /\ contrib # <<>>
    /\ contrib[1].signal = "buy"
    /\ contrib[1].c > 0
    /\ w_buy.sg = 1
    /\ \A i \in 1..Len(buy_item_freq) : buy_item_freq[i][1] # contrib[1].a
    /\ \A i \in 1..Len(topk_map) : topk_map[i][1] # contrib[1].a

\* the frequency a table gives an item: 0 when the item is not in it
FreqIn(table, item) ==
    IF \E i \in 1..Len(table) : table[i][1] = item
    THEN table[CHOOSE i \in 1..Len(table) : table[i][1] = item][2]
    ELSE 0

\* sim is count / sqrt(fa * fb) when all three are positive, and 0.0 otherwise
IsCosine(sim, count, fa, fb) ==
    IF count > 0 /\ fa > 0 /\ fb > 0
    THEN sim.sg = 1 /\ sim.n * fa * fb = count * count * sim.d
    ELSE sim = [sg |-> 0, n |-> 0, d |-> 1]

\* C9: cosine_style_sim(count_ab, freq_a, freq_b) is count_ab / sqrt(freq_a *
\* freq_b) when all three are positive (10, 100, 25 gives 0.2) and exactly 0.0
\* otherwise; it never raises; build_topk reads an item missing from a signal's
\* frequency table as frequency 0, so such a row scores 0.0.
C9_CosineDefined ==
    /\ pc # "raised"
    /\ contrib # <<>> =>
           LET k == contrib[1]
           IN  /\ k.signal \in {"view", "buy", "test_cosine"} =>
                      /\ IsCosine(k.sim, k.c, k.fa, k.fb)
                      /\ (k.c = 10 /\ k.fa = 100 /\ k.fb = 25) =>
                             k.sim = [sg |-> 1, n |-> 1, d |-> 25]
               /\ k.signal = "view" =>
                      /\ k.fa = FreqIn(view_item_freq, k.a)
                      /\ k.fb = FreqIn(view_item_freq, k.b)
               /\ k.signal = "buy" =>
                      /\ k.fa = FreqIn(buy_item_freq, k.a)
                      /\ k.fb = FreqIn(buy_item_freq, k.b)
               /\ (k.signal \in {"view", "buy"} /\ (k.fa = 0 \/ k.fb = 0)) =>
                      k.s = [sg |-> 0, n |-> 0, d |-> 1]

\* a view row with a positive count named an item missing from the view table
C9_Witness ==
    /\ contrib # <<>>
    /\ contrib[1].signal = "view"
    /\ contrib[1].c > 0
    /\ \A i \in 1..Len(view_item_freq) : view_item_freq[i][1] # contrib[1].b
    /\ contrib[1].sim = Zero
    /\ pc = "buy_pass"

\* s = w * sim, on squares
IsProduct(s, w, sim) ==
    /\ s.sg = w.sg * sim.sg
    /\ s.n * w.d * sim.d = w.n * sim.n * s.d

\* numerator and denominator of a rational float
Num(x) == x.sg * ISqrt(x.n)
Den(x) == ISqrt(x.d)

\* C10: final_score(view_sim, buy_sim, w_view, w_buy) is w_view * view_sim +
\* w_buy * buy_sim (0.5, 0.5, 1.0, 3.0 gives 2.0); in build_topk a view
\* contribution scores w_view * (its similarity over the view frequencies) and a
\* buy contribution w_buy * (its similarity over the buy frequencies).
C10_FinalScoreLinear ==
    contrib # <<>> =>
        LET k == contrib[1]
        IN  /\ k.signal = "test_final" =>
                   /\ Num(k.s) * Den(k.wv) * Den(k.view_sim) * Den(k.wb) * Den(k.buy_sim)
                          = Den(k.s) * ( Num(k.wv) * Num(k.view_sim) * Den(k.wb) * Den(k.buy_sim)
                                       + Num(k.wb) * Num(k.buy_sim) * Den(k.wv) * Den(k.view_sim) )
                   /\ ( /\ k.view_sim = [sg |-> 1, n |-> 1, d |-> 4]
                        /\ k.buy_sim = [sg |-> 1, n |-> 1, d |-> 4]
                        /\ k.wv = [sg |-> 1, n |-> 1, d |-> 1]
                        /\ k.wb = [sg |-> 1, n |-> 9, d |-> 1] )
                          => k.s = [sg |-> 1, n |-> 4, d |-> 1]
            /\ k.signal = "view" =>
                   /\ IsCosine(k.sim, k.c, FreqIn(view_item_freq, k.a),
                               FreqIn(view_item_freq, k.b))
                   /\ IsProduct(k.s, w_view, k.sim)
            /\ k.signal = "buy" =>
                   /\ IsCosine(k.sim, k.c, FreqIn(buy_item_freq, k.a),
                               FreqIn(buy_item_freq, k.b))
                   /\ IsProduct(k.s, w_buy, k.sim)

\* a buy row scored positively, over buy frequencies that differ from the view
\* frequencies of the same items, under weights that differ
C10_Witness ==
    /\ contrib # <<>>
    /\ contrib[1].signal = "buy"
    /\ contrib[1].s.sg = 1
    /\ w_view # w_buy
    /\ w_view.sg = 1
    /\ FreqIn(view_item_freq, contrib[1].a) * FreqIn(view_item_freq, contrib[1].b)
           # contrib[1].fa * contrib[1].fb

\* C11: at every point of build_topk, so after every processed pair row and at
\* the end of the view pass and of the buy pass, the score graph is symmetric:
\* an edge a -> b is stored exactly when b -> a is, and both hold the same score
\* (every stored edge has its reverse stored, with the score it holds itself).
C11_ScoreGraphSymmetric ==
    \A i \in 1..Len(scores) :
        \A j \in 1..Len(scores[i][2]) :
            LET a == scores[i][1]
                b == scores[i][2][j][1]
            IN  /\ HasEdge(b, a)
                /\ Stored(b, a) = scores[i][2][j][2]

\* a buy row raised the score an earlier row had stored for its pair, in both
\* directions
C11_Witness ==
    /\ pc = "buy_pass"
    /\ contrib # <<>>
    /\ contrib[1].signal = "buy"
    /\ contrib[1].s.sg = 1
    /\ Cardinality(PositiveOffers(contrib[1].a, contrib[1].b)) = 2
    /\ HasEdge(contrib[1].a, contrib[1].b)
    /\ HasEdge(contrib[1].b, contrib[1].a)
    /\ Stored(contrib[1].a, contrib[1].b) = contrib[1].s
    /\ Stored(contrib[1].b, contrib[1].a) = contrib[1].s

(***************************************************************************)
(* build_topk on two signals that name the same pairs, so that a buy row   *)
(* can raise the score of an edge a view row inserted, and scores can tie. *)
(***************************************************************************)
MaxTieRows == 3

TieViewFreq == <<<<10, 4>>, <<20, 4>>, <<30, 4>>>>
TieBuyFreq == <<<<10, 1>>, <<20, 1>>, <<30, 1>>>>
TieBuyWeights == {1, 2}

\* a pair table holds one row per pair
DistinctPairs(rows) ==
    \A i \in 1..Len(rows), j \in 1..Len(rows) :
        i # j => <<rows[i].item_i, rows[i].item_j>> # <<rows[j].item_i, rows[j].item_j>>

TiePairTables ==
    {rows \in SeqsUpTo({r \in PairRows : r.count > 0}, MaxTieRows) : DistinctPairs(rows)}

InitTies ==
    /\ pc = "view_pass"
    /\ view_item_freq = TieViewFreq
    /\ buy_item_freq = TieBuyFreq
    /\ view_pairs \in TiePairTables
    /\ buy_pairs \in {rows \in TiePairTables : Len(view_pairs) + Len(rows) <= MaxTieRows}
    /\ topk \in TopKs
    /\ w_view = Float(1)
    /\ w_buy \in {Float(w) : w \in TieBuyWeights}
    /\ BuildIdle
    /\ SessionsIdle
    /\ CooccurIdle
    /\ CountersEmpty
    /\ OuterIdle

NextTies == ViewRow \/ ViewPassDone \/ BuyRow \/ Reduce

SpecTies == InitTies /\ [][NextTies]_vars

\* the neighbours a graph stores for an item, in the order of their dict
NeighbourKeys(graph, a) ==
    IF \E i \in 1..Len(graph) : graph[i][1] = a
    THEN LET neigh == graph[CHOOSE i \in 1..Len(graph) : graph[i][1] = a][2]
         IN  [j \in 1..Len(neigh) |-> neigh[j][1]]
    ELSE <<>>

IsPrefix(s, t) == Len(s) <= Len(t) /\ \A i \in 1..Len(s) : s[i] = t[i]

PositionIn(seq, x) == CHOOSE i \in 1..Len(seq) : seq[i] = x

\* C14: the neighbours of an item are held in the order in which their edges
\* were first inserted: a step of build_topk leaves the neighbours already held
\* where they are, whether or not it raises their scores, and puts at most one
\* new neighbour after them, the other item of the row it processed.  The
\* reduction keeps that order among neighbours of equal stored score: of two
\* listed neighbours of equal score the one inserted first comes first, and a
\* neighbour cut off by K that ties with a listed one was inserted after it.
\* The keys of the map are in the order of the keys of the score graph.
C14_TieBreakStable ==
    [][ /\ \A a \in Items :
               LET old == NeighbourKeys(scores, a)
                   new == NeighbourKeys(scores', a)
               IN  /\ IsPrefix(old, new)
                   /\ Len(new) <= Len(old) + 1
                   /\ Len(new) = Len(old) + 1 =>
                          /\ contrib' # <<>>
                          /\ {a, new[Len(new)]} = {contrib'[1].a, contrib'[1].b}
        /\ pc' = "built" =>
               /\ Len(topk_map') = Len(scores)
               /\ \A i \in 1..Len(topk_map') :
                      LET a == topk_map'[i][1]
                          list == topk_map'[i][2]
                          order == NeighbourKeys(scores, a)
                      IN  /\ a = scores[i][1]
                          /\ \A j \in 1..Len(list), k \in 1..Len(list) :
                                 (j < k /\ Stored(a, list[j]) = Stored(a, list[k])) =>
                                     PositionIn(order, list[j]) < PositionIn(order, list[k])
                          /\ \A b \in Range(order) \ Range(list), k \in 1..Len(list) :
                                 Stored(a, b) = Stored(a, list[k]) =>
                                     PositionIn(order, list[k]) < PositionIn(order, b)
      ]_vars

\* an item has two neighbours of equal stored score; the one inserted first
\* reached that score only by a later row, and it is listed first
C14_Witness ==
    /\ pc = "built"
    /\ \E i \in 1..Len(scores) :
           LET a == scores[i][1]
               neigh == scores[i][2]
           IN  /\ Len(neigh) = 2
               /\ neigh[1][2] = neigh[2][2]
               /\ Cardinality(PositiveOffers(a, neigh[1][1])) = 2
               /\ topk_map[i][2][1] = neigh[1][1]

(***************************************************************************)
(* Strings are sequences of one-character strings.                         *)
(***************************************************************************)
Digits == <<"0", "1", "2", "3", "4", "5", "6", "7", "8", "9">>

DigitValue(ch) == (CHOOSE i \in 1..10 : Digits[i] = ch) - 1

RECURSIVE DigitsValue(_)
DigitsValue(str) ==
    IF str = <<>> THEN 0
    ELSE 10 * DigitsValue(SubSeq(str, 1, Len(str) - 1)) + DigitValue(str[Len(str)])

RECURSIVE Pow10(_)
Pow10(k) == IF k = 0 THEN 1 ELSE 10 * Pow10(k - 1)

\* int(str) of a decimal numeral
ParseInt(str) ==
    IF Head(str) = "-" THEN 0 - DigitsValue(Tail(str)) ELSE DigitsValue(str)

\* float(str) of a decimal numeral with an optional fraction
ParseFloat(str) ==
    LET neg == Head(str) = "-"
        body == IF neg THEN Tail(str) ELSE str
        dot == IF \E i \in 1..Len(body) : body[i] = "."
               THEN CHOOSE i \in 1..Len(body) : body[i] = "."
               ELSE Len(body) + 1
        whole == SubSeq(body, 1, dot - 1)
        frac == SubSeq(body, dot + 1, Len(body))
        p == DigitsValue(whole) * Pow10(Len(frac)) + DigitsValue(frac)
    IN  Ratio(IF neg THEN 0 - p ELSE p, Pow10(Len(frac)))

RECURSIVE Str(_)
\* str(n) of an integer
Str(n) ==
    IF n < 0 THEN <<"-">> \o Str(0 - n)
    ELSE IF n < 10 THEN <<Digits[n + 1]>>
    ELSE Str(n \div 10) \o <<Digits[(n % 10) + 1]>>

RECURSIVE Join(_, _)
\* sep.join(strs)
Join(sep, strs) ==
    IF strs = <<>> THEN <<>>
    ELSE IF Len(strs) = 1 THEN strs[1]
    ELSE strs[1] \o sep \o Join(sep, Tail(strs))

(***************************************************************************)
(* config.py                                                               *)
(***************************************************************************)
DefaultTopK == 50
DefaultViewWeight == 1
DefaultBuyWeight == 3

\* os.getenv(name) is None
EnvUnset == <<None>>

\* lines 19-25
get_int(name, default) ==
    IF env[name] # EnvUnset THEN ParseInt(env[name]) ELSE default

\* lines 10-16
get_float(name, default) ==
    IF env[name] # EnvUnset THEN ParseFloat(env[name]) ELSE Float(default)

\* lines 28-35: Config()
Config ==
    [topk |-> get_int("TOPK", DefaultTopK),
     view_weight |-> get_float("VIEW_WEIGHT", DefaultViewWeight),
     buy_weight |-> get_float("BUY_WEIGHT", DefaultBuyWeight)]

(***************************************************************************)
(* build_index.py: main                                                    *)
(***************************************************************************)
PreviewItems == 200
PreviewRecs == 10

InputFiles == {"view_item_freq", "view_pair_counts", "buy_item_freq", "buy_pair_counts"}

RECURSIVE load_item_freq(_)
\* lines 13-15: {int(r.itemid): int(r.freq) for r in rows}
load_item_freq(rows) ==
    IF rows = <<>> THEN <<>>
    ELSE DictSet(load_item_freq(SubSeq(rows, 1, Len(rows) - 1)),
                 rows[Len(rows)][1], rows[Len(rows)][2])

\* lines 95-117: read the configuration, check that the four inputs exist, and
\* either give up or load them and call build_topk
MainStart ==
    /\ pc = "main"
    /\ LET cfg == Config
       IN  /\ topk' = cfg.topk
           /\ w_view' = cfg.view_weight
           /\ w_buy' = cfg.buy_weight
    /\ IF ~(InputFiles \subseteq exists)
       THEN /\ pc' = "exit"
            /\ UNCHANGED <<view_item_freq, view_pairs, buy_item_freq, buy_pairs>>
       ELSE /\ pc' = "view_pass"
            /\ view_item_freq' = load_item_freq(artefacts.view_item_freq)
            /\ buy_item_freq' = load_item_freq(artefacts.buy_item_freq)
            /\ view_pairs' = artefacts.view_pair_counts
            /\ buy_pairs' = artefacts.buy_pair_counts
    /\ UNCHANGED <<cooccurVars, counterVars, buildVars, outerVars, sessionVars>>

\* line 134: {str(k): v for k, v in topk_map.items()}
TopkJson(map) == [i \in 1..Len(map) |-> <<Str(map[i][1]), map[i][2]>>]

\* lines 137-142: the first 200 items, ten recommendations each
TopkPreview(map) ==
    [i \in 1..Min(Len(map), PreviewItems) |->
        <<map[i][1],
          Join(<<" ">>, [j \in 1..Len(SliceTo(map[i][2], PreviewRecs)) |-> Str(map[i][2][j])])>>]

\* lines 131-148: build_topk has returned; write topk.json and the preview
MainWrite ==
    /\ pc = "built"
    /\ artefacts' = [artefacts EXCEPT !.topk_json = TopkJson(topk_map),
                                      !.topk_preview = TopkPreview(topk_map)]
    /\ exists' = exists \cup {"topk_json", "topk_preview"}
    /\ pc' = "done"
    /\ UNCHANGED <<cooccurVars, counterVars, inputVars, buildVars, groups, env, TOPK,
                   response, sessionVars>>

(***************************************************************************)
(* api.py                                                                  *)
(***************************************************************************)
MaxRequestK == 2
MaxQueryK == 50

\* lines 16-23: {int(k): [int(x) for x in v] for k, v in raw.items()}
load_topk(raw) == [i \in 1..Len(raw) |-> <<ParseInt(raw[i][1]), raw[i][2]>>]

\* lines 26-37: the server starts after the build run has ended
Startup ==
    /\ pc \in {"done", "exit"}
    /\ TOPK' = IF "topk_json" \in exists THEN load_topk(artefacts.topk_json) ELSE <<>>
    /\ pc' = "serving"
    /\ UNCHANGED <<cooccurVars, counterVars, inputVars, buildVars, groups, env, exists,
                   artefacts, response, sessionVars>>

\* lines 56-62; status 500 stands for an exception raised by the handler
recommend_Mut(itemid, k) ==
    IF itemid \in DictKeys(TOPK)
    THEN [status |-> 200, itemid |-> itemid, k |-> k,
          recommendations |-> SliceTo(DictGet(TOPK, itemid, <<>>), k), available |-> TRUE]
    ELSE [status |-> 500, itemid |-> itemid, k |-> k,
          recommendations |-> <<>>, available |-> FALSE]

recommend(itemid, k) ==
    LET recs == DictGet(TOPK, itemid, <<>>)
    IN  [status |-> 200, itemid |-> itemid, k |-> k,
         recommendations |-> SliceTo(recs, k), available |-> itemid \in DictKeys(TOPK)]

\* the item ids clients ask for: the catalogue and an item never seen
QueryItems == Items \cup {40}

\* lines 48-62: GET /recommend?itemid=..&k=.., k validated to 1..50
Recommend ==
    /\ pc = "serving"
    /\ \E itemid \in QueryItems, k \in 1..Min(MaxRequestK, MaxQueryK) :
           response' = <<recommend(itemid, k)>>
    /\ UNCHANGED <<pc, cooccurVars, counterVars, inputVars, buildVars, groups, env,
                   exists, artefacts, TOPK, sessionVars>>

(***************************************************************************)
(* A build run followed by serving: build_index.main, then the API.        *)
(***************************************************************************)
TopkEnv == {EnvUnset, <<"0">>, <<"-", "1">>, <<"1">>, <<"2">>}
ViewWeightEnv == {EnvUnset, <<"-", "1", ".", "0">>, <<"0", ".", "5">>}
BuyWeightEnv == {EnvUnset, <<"-", "1", ".", "0">>, <<"0">>}

\* rows of an item-frequency file
SampleViewFreqFile == <<<<10, 2>>, <<20, 3>>, <<30, 2>>>>
SampleBuyFreqFile == <<<<10, 1>>, <<20, 1>>, <<30, 4>>>>

MainPairFiles == SeqsUpTo({r \in PairRows : r.count > 0}, 1)

InitMain ==
    /\ pc = "main"
    /\ env \in [TOPK : TopkEnv, VIEW_WEIGHT : ViewWeightEnv, BUY_WEIGHT : BuyWeightEnv]
    /\ exists \in SUBSET InputFiles
    /\ \E vp \in MainPairFiles, bp \in MainPairFiles :
           /\ exists # InputFiles => (vp = <<>> /\ bp = <<>>)
           /\ artefacts =
                  [view_item_freq |-> IF "view_item_freq" \in exists
                                      THEN SampleViewFreqFile ELSE <<>>,
                   view_pair_counts |-> IF "view_pair_counts" \in exists THEN vp ELSE <<>>,
                   buy_item_freq |-> IF "buy_item_freq" \in exists
                                     THEN SampleBuyFreqFile ELSE <<>>,
                   buy_pair_counts |-> IF "buy_pair_counts" \in exists THEN bp ELSE <<>>,
                   topk_json |-> <<>>,
                   topk_preview |-> <<>>]
    /\ groups = <<>>
    /\ TOPK = <<>>
    /\ response = <<>>
    /\ NoBuildInputs
    /\ BuildIdle
    /\ SessionsIdle
    /\ CooccurIdle
    /\ CountersEmpty

NextMain ==
    MainStart \/ ViewRow \/ ViewPassDone \/ BuyRow \/ Reduce \/ MainWrite \/ Startup
        \/ Recommend

SpecMain == InitMain /\ [][NextMain]_vars

(***************************************************************************)
(* Claims about the build run and the serving lookup.                      *)
(***************************************************************************)
\* the list the loaded map stores for an item
StoredList(itemid) == TOPK[CHOOSE i \in 1..Len(TOPK) : TOPK[i][1] = itemid][2]

IsKey(itemid) == \E i \in 1..Len(TOPK) : TOPK[i][1] = itemid

\* C5: recommend(itemid, k) never raises; for an item that is not a key of the
\* loaded map it returns no recommendations and available = false, and no item
\* is a key when topk.json was missing at startup; for a key it returns
\* available = true and the first min(k, length) entries of the stored list.
C5_RecommendTotal ==
    /\ (pc = "serving" /\ "topk_json" \notin exists) => TOPK = <<>>
    /\ response # <<>> =>
           LET r == response[1]
           IN  /\ r.status = 200
               /\ ~IsKey(r.itemid) => (r.recommendations = <<>> /\ r.available = FALSE)
               /\ IsKey(r.itemid) =>
                      /\ r.available = TRUE
                      /\ Len(r.recommendations) = Min(r.k, Len(StoredList(r.itemid)))
                      /\ \A j \in 1..Len(r.recommendations) :
                             r.recommendations[j] = StoredList(r.itemid)[j]

\* with topk.json missing at startup, a request for a catalogue item was
\* answered with nothing and available = false
C5_Witness ==
    /\ pc = "serving"
    /\ "topk_json" \notin exists
    /\ response # <<>>
    /\ response[1].itemid = 10
    /\ response[1].status = 200
    /\ response[1].available = FALSE

ConfigInvalid == topk <= 0 \/ w_view.sg < 0 \/ w_buy.sg < 0

\* C8: a configuration with topk <= 0 or a negative weight stops the build run
\* before build_topk is called and before any output is written.
C8_InvalidConfigRejected ==
    (pc # "main" /\ ConfigInvalid) =>
        /\ pc \notin {"view_pass", "buy_pass", "built", "done"}
        /\ "topk_json" \notin exists
        /\ "topk_preview" \notin exists

(***************************************************************************)
(* The buy signal end to end: cooccur_from_transactions counts the baskets *)
(* of the transactions, cooccur.main saves the counters, build_index loads *)
(* them and build_topk runs on them with an empty view signal.             *)
(***************************************************************************)
MaxBaskets == 3

\* df.groupby("transactionid") yields one group per transaction id, each with at
\* least one row, so each basket has at least one item
Baskets == (SUBSET Items) \ {{}}

InitTransactions ==
    /\ pc = "groups"
    /\ groups \in SeqsUpTo(Baskets, MaxBaskets)
    /\ sessions_file = <<>>
    /\ chunksize = DefaultChunkSize
    /\ offset = 0
    /\ chunk = <<>>
    /\ current_session = None
    /\ items_in_session = {}
    /\ flushed = <<>>
    /\ env = <<>>
    /\ exists = {}
    /\ artefacts = NoFiles
    /\ TOPK = <<>>
    /\ response = <<>>
    /\ CountersEmpty
    /\ NoBuildInputs
    /\ BuildIdle
    /\ SessionsIdle

\* cooccur.py lines 102-104: one iteration of the loop over the groups
TransactionGroup ==
    /\ pc = "groups"
    /\ Len(flushed) < Len(groups)
    /\ LET items == groups[Len(flushed) + 1]
       IN  /\ item_freq' = FlushItemFreq(items, item_freq)
           /\ pair_counts' = FlushPairCounts(items, pair_counts)
           /\ pair_keys' = FlushPairKeys(items, pair_keys)
           /\ flushed' = Append(flushed, items)
    /\ UNCHANGED <<pc, sessions_file, chunksize, offset, chunk, current_session,
                   items_in_session, inputVars, buildVars, outerVars, sessionVars>>

\* cooccur.py lines 109-111 read back by build_index.py lines 13-15: one row per
\* key of the Counter
SavedItemFreq(freq) ==
    LET keys == SortedSeq({it \in Items : freq[it] > 0})
    IN  [i \in 1..Len(keys) |-> <<keys[i], freq[keys[i]]>>]

\* cooccur.py lines 114-116 read back by build_index.py lines 18-24: one row per
\* key of the Counter, in the Counter's order
SavedPairCounts(keys, pairs) ==
    [i \in 1..Len(keys) |->
        [item_i |-> keys[i][1], item_j |-> keys[i][2], count |-> pairs[keys[i]]]]

\* cooccur.py lines 106 and 145-148, build_index.py lines 113-128: the loop is
\* over, the counters are saved, loaded and handed to build_topk as the buy
\* signal, with weight 1.0
HandOver ==
    /\ pc = "groups"
    /\ Len(flushed) = Len(groups)
    /\ buy_item_freq' = load_item_freq(SavedItemFreq(item_freq))
    /\ buy_pairs' = SavedPairCounts(pair_keys, pair_counts)
    /\ view_item_freq' = <<>>
    /\ view_pairs' = <<>>
    /\ topk' \in {1, 2, 3}
    /\ w_buy' = Float(1)
    /\ w_view' \in {Float(w) : w \in ViewWeights}
    /\ pc' = "view_pass"
    /\ UNCHANGED <<cooccurVars, counterVars, buildVars, outerVars, sessionVars>>

NextEndToEnd == TransactionGroup \/ HandOver \/ ViewPassDone \/ BuyRow \/ Reduce

SpecEndToEnd == InitTransactions /\ [][NextEndToEnd]_vars

\* the list the returned map holds for an item
ListOf(item) == topk_map[CHOOSE i \in 1..Len(topk_map) : topk_map[i][1] = item][2]

ThreeBasketsBuilt ==
    /\ pc = "built"
    /\ Len(groups) = 3
    /\ Range(groups) = {{10, 20, 30}, {10, 20}, {20, 30}}
    /\ topk >= 2

\* x > y, on squares
Above(x, y) == AtLeast(x, y) /\ x # y

\* C7 as stated: the baskets {10,20,30}, {10,20}, {20,30} as a single signal of
\* weight 1.0 give item frequencies 10:2, 20:3, 30:2 and pair counts (10,20):2,
\* (10,30):1, (20,30):1; (10,20) ranks above (10,30) above (20,30); and with
\* K >= 2 the list of item 10 is [20, 30].
C7_AsStated ==
    ThreeBasketsBuilt =>
        /\ item_freq[10] = 2 /\ item_freq[20] = 3 /\ item_freq[30] = 2
        /\ pair_counts[<<10, 20>>] = 2
        /\ pair_counts[<<10, 30>>] = 1
        /\ pair_counts[<<20, 30>>] = 1
        /\ Above(Stored(10, 20), Stored(10, 30))
        /\ Above(Stored(10, 30), Stored(20, 30))
        /\ ListOf(10) = <<20, 30>>

\* C7, amended: the baskets {10,20,30}, {10,20}, {20,30} (in any order) as a
\* single signal of weight 1.0 give item frequencies 10:2, 20:3, 30:2 and pair
\* counts (10,20):2, (10,30):1, (20,30):2 and nothing else; the scores are
\* 2/sqrt(6) for (10,20) and for (20,30) and 1/sqrt(4) for (10,30), so (10,20)
\* ranks above (10,30), and with K >= 2 the list of item 10 is [20, 30].
C7_EndToEnd ==
    ThreeBasketsBuilt =>
        /\ item_freq[10] = 2 /\ item_freq[20] = 3 /\ item_freq[30] = 2
        /\ \A a \in Items, b \in Items :
               pair_counts[<<a, b>>] = IF <<a, b>> \in {<<10, 20>>, <<20, 30>>} THEN 2
                                       ELSE IF <<a, b>> = <<10, 30>> THEN 1
                                       ELSE 0
        /\ Stored(10, 20) = [sg |-> 1, n |-> 2, d |-> 3]
        /\ Stored(10, 30) = [sg |-> 1, n |-> 1, d |-> 4]
        /\ Stored(20, 30) = [sg |-> 1, n |-> 2, d |-> 3]
        /\ Above(Stored(10, 20), Stored(10, 30))
        /\ ListOf(10) = <<20, 30>>

\* the three baskets went through in the order given, with K = 2
C7_Witness ==
    /\ pc = "built"
    /\ groups = <<{10, 20, 30}, {10, 20}, {20, 30}>>
    /\ topk = 2
    /\ Len(topk_map) = 3

\* C15: through any sequence of _flush_group calls from empty counters, every
\* key (a, b) of pair_counts has a < b, so a pair has one key and no item is
\* paired with itself, and 1 <= pair_counts[(a, b)] <= min(item_freq[a],
\* item_freq[b]); no call lowers a count or removes a key.  So every similarity
\* build_topk computes from the counters is at most 1.
C15_PairCountsBounded ==
    [][ /\ \A i \in 1..Len(pair_keys') :
               LET key == pair_keys'[i]
               IN  /\ key[1] < key[2]
                   /\ pair_counts'[key] >= 1
                   /\ pair_counts'[key] <= item_freq'[key[1]]
                   /\ pair_counts'[key] <= item_freq'[key[2]]
                   /\ \A j \in 1..Len(pair_keys') : j # i => pair_keys'[j] # key
        /\ \A a \in Items, b \in Items :
               (\A i \in 1..Len(pair_keys') : pair_keys'[i] # <<a, b>>) =>
                   pair_counts'[<<a, b>>] = 0
        /\ \A it \in Items : item_freq'[it] >= item_freq[it]
        /\ \A a \in Items, b \in Items : pair_counts'[<<a, b>>] >= pair_counts[<<a, b>>]
        /\ IsPrefix(pair_keys, pair_keys')
        /\ (contrib' # <<>> /\ contrib'[1].sim.sg # 0) =>
               /\ contrib'[1].sim.sg = 1
               /\ contrib'[1].sim.n <= contrib'[1].sim.d
      ]_vars

\* three baskets were counted; one pair is in as many baskets as its rarer item
\* and in fewer than its other item, another pair is in fewer than either of
\* its items, and build_topk has scored the pairs
C15_Witness ==
    /\ pc = "built"
    /\ Len(flushed) = 3
    /\ \E a \in Items, b \in Items :
           /\ pair_counts[<<a, b>>] = 2
           /\ item_freq[a] = 2
           /\ item_freq[b] = 3
    /\ \E a \in Items, b \in Items :
           /\ pair_counts[<<a, b>>] = 1
           /\ item_freq[a] = 2
           /\ item_freq[b] = 2
    /\ contrib # <<>>
    /\ contrib[1].sim.sg = 1

(***************************************************************************)
(* cooccur.py: main.  The raw files are data/processed/sessions.csv and    *)
(* data/raw/events.csv; events.csv is held as the transaction groups that  *)
(* df.groupby("transactionid") makes of it.                                *)
(***************************************************************************)
RawFiles == {"sessions_csv", "events_csv"}

\* contents of sessions.csv and of events.csv
SampleSessionFiles == SeqsUpTo({r \in SessionRows : r.itemid # 30}, 2)
SampleEventGroups == SeqsUpTo({{10}, {10, 20}, {10, 20, 30}}, 2)

InitCooccurMain ==
    /\ pc = "cooccur_main"
    /\ exists \in SUBSET RawFiles
    /\ sessions_file \in (IF "sessions_csv" \in exists THEN SampleSessionFiles ELSE {<<>>})
    /\ groups \in (IF "events_csv" \in exists THEN SampleEventGroups ELSE {<<>>})
    /\ chunksize = DefaultChunkSize
    /\ offset = 0
    /\ chunk = <<>>
    /\ current_session = None
    /\ items_in_session = {}
    /\ flushed = <<>>
    /\ env = <<>>
    /\ artefacts = NoFiles
    /\ TOPK = <<>>
    /\ response = <<>>
    /\ CountersEmpty
    /\ NoBuildInputs
    /\ BuildIdle
    /\ SessionsIdle

CooccurMainStart_Mut ==
    /\ pc = "cooccur_main"
    /\ pc' = IF "sessions_csv" \notin exists THEN "cooccur_exit" ELSE "chunks"
    /\ UNCHANGED <<cooccurVars, counterVars, inputVars, buildVars, outerVars, sessionVars>>

\* lines 120-135: give up when sessions.csv or events.csv is missing, else call
\* cooccur_from_sessions_csv with the default chunksize
CooccurMainStart ==
    /\ pc = "cooccur_main"
    /\ pc' = IF "sessions_csv" \notin exists THEN "cooccur_exit"
             ELSE IF "events_csv" \notin exists THEN "cooccur_exit"
             ELSE "chunks"
    /\ UNCHANGED <<cooccurVars, counterVars, inputVars, buildVars, outerVars, sessionVars>>

\* lines 135-145 and 89-99: cooccur_from_sessions_csv has returned; save the view
\* counters and start cooccur_from_transactions on fresh counters
SaveViewArtefacts ==
    /\ pc = "returned"
    /\ artefacts' = [artefacts EXCEPT
                         !.view_item_freq = SavedItemFreq(item_freq),
                         !.view_pair_counts = SavedPairCounts(pair_keys, pair_counts)]
    /\ exists' = exists \cup {"view_item_freq", "view_pair_counts"}
    /\ item_freq' = EmptyItemFreq
    /\ pair_counts' = EmptyPairCounts
    /\ pair_keys' = <<>>
    /\ flushed' = <<>>
    /\ pc' = "groups"
    /\ UNCHANGED <<sessions_file, chunksize, offset, chunk, current_session,
                   items_in_session, inputVars, buildVars, groups, env, TOPK, response,
                   sessionVars>>

\* lines 145-154: cooccur_from_transactions has returned; save the buy counters
SaveBuyArtefacts ==
    /\ pc = "groups"
    /\ Len(flushed) = Len(groups)
    /\ artefacts' = [artefacts EXCEPT
                         !.buy_item_freq = SavedItemFreq(item_freq),
                         !.buy_pair_counts = SavedPairCounts(pair_keys, pair_counts)]
    /\ exists' = exists \cup {"buy_item_freq", "buy_pair_counts"}
    /\ pc' = "saved"
    /\ UNCHANGED <<cooccurVars, counterVars, inputVars, buildVars, groups, env, TOPK,
                   response, sessionVars>>

NextCooccurMain ==
    CooccurMainStart \/ ReadChunk \/ ProcessRow \/ FinalFlush \/ SaveViewArtefacts
        \/ TransactionGroup \/ SaveBuyArtefacts

(***************************************************************************)
(* The two batch programs, each run on its own: cooccur.main, or           *)
(* build_index.main followed by the API.                                   *)
(***************************************************************************)
SpecRuns == (InitCooccurMain \/ InitMain) /\ [][NextCooccurMain \/ NextMain]_vars

\* the positions of a run of cooccur.main
InCooccurMain == pc \in {"cooccur_main", "cooccur_exit", "chunks", "returned", "groups", "saved"}

\* the files cooccur.main writes, and the files build_index.main writes
CooccurOutputs == {"view_item_freq", "view_pair_counts", "buy_item_freq", "buy_pair_counts"}
BuildOutputs == {"topk_json", "topk_preview"}

\* C12: a run with a required input absent stops at its existence checks and
\* writes nothing.  build_index.main, when any of the four artefact files is
\* missing, ends without calling build_topk and writes neither topk.json nor
\* topk_preview.csv; cooccur.main, when sessions.csv or events.csv is missing,
\* ends without counting and writes none of its four artefacts.  So an output
\* file of a run exists only if every input of that run does: the checks all
\* come before the first write.
C12_NoPartialOutput ==
    /\ (~InCooccurMain /\ pc # "main" /\ ~(InputFiles \subseteq exists)) =>
           /\ pc \in {"exit", "serving"}
           /\ exists \cap BuildOutputs = {}
           /\ artefacts.topk_json = <<>> /\ artefacts.topk_preview = <<>>
           /\ scores = <<>> /\ topk_map = <<>>
    /\ (~InCooccurMain /\ exists \cap BuildOutputs # {}) => InputFiles \subseteq exists
    /\ (InCooccurMain /\ pc # "cooccur_main" /\ ~(RawFiles \subseteq exists)) =>
           /\ pc = "cooccur_exit"
           /\ exists \cap CooccurOutputs = {}
           /\ artefacts = NoFiles
           /\ flushed = <<>>
    /\ (InCooccurMain /\ exists \cap CooccurOutputs # {}) => RawFiles \subseteq exists

\* cooccur.main found sessions.csv, with rows, but not events.csv, and ended
\* with nothing written
C12_Witness ==
    /\ pc = "cooccur_exit"
    /\ "sessions_csv" \in exists
    /\ "events_csv" \notin exists
    /\ sessions_file # <<>>
    /\ exists \cap CooccurOutputs = {}

(***************************************************************************)
(* sessions.py: build_sessions.  Timestamps are in milliseconds.  gap_min  *)
(* is a quotient of integers; it is kept exactly, as a fraction in lowest  *)
(* terms.                                                                  *)
(***************************************************************************)
MaxEvents == 3
MsPerSecond == 1000
SecondsPerMinute == 60

Visitors == {1, 2}
Timestamps == {0, 60000, 120001, 1920001}
GapMinutes == {1, 30}
EventRows == [visitorid : Visitors, timestamp : Timestamps, event : {"view"}, itemid : {10, 20}]

SetMax(S) == CHOOSE x \in S : \A y \in S : x >= y

\* the order of sort_values(["visitorid", "timestamp"])
SortsBefore(r, s) ==
    \/ r.visitorid < s.visitorid
    \/ r.visitorid = s.visitorid /\ r.timestamp < s.timestamp

RECURSIVE SortValues(_)
\* line 22: df.sort_values(["visitorid", "timestamp"]).reset_index(drop=True);
\* rows of equal keys keep their order
SortValues(rows) ==
    IF rows = <<>> THEN <<>>
    ELSE LET first == CHOOSE i \in 1..Len(rows) :
                          /\ \A j \in 1..Len(rows) : ~SortsBefore(rows[j], rows[i])
                          /\ \A j \in 1..(i - 1) : SortsBefore(rows[i], rows[j])
         IN  <<rows[first]>>
                 \o SortValues(SubSeq(rows, 1, first - 1) \o SubSeq(rows, first + 1, Len(rows)))

\* the fraction p / q, p >= 0, q > 0
Fraction(p, q) == [num |-> p \div GCD(p, q), den |-> q \div GCD(p, q)]

\* x / k for a fraction x and an integer k > 0
FractionOver(x, k) == Fraction(x.num, x.den * k)

\* line 32: df["gap_min"] > gap_minutes
GapExceeds_Mut(gap_min, gap) == gap_min.num >= gap * gap_min.den
GapExceeds(gap_min, gap) == gap_min.num > gap * gap_min.den

\* the rows before row i that are of the same visitor
EarlierOfVisitor(df, i) == {j \in 1..(i - 1) : df[j].visitorid = df[i].visitorid}

\* line 32: df["prev_ts"].isna(), at row i
prev_isna(df, i) == EarlierOfVisitor(df, i) = {}

\* line 26: df.groupby("visitorid")["timestamp"].shift(1), at a row i that is
\* not the first of its visitor
prev_ts(df, i) == df[SetMax(EarlierOfVisitor(df, i))].timestamp

\* line 27: (df["timestamp"] - df["prev_ts"]) / 1000.0 / 60.0, at a row with a
\* previous timestamp
gap_min(df, i) ==
    FractionOver(FractionOver(Fraction(df[i].timestamp - prev_ts(df, i), 1), MsPerSecond),
                 SecondsPerMinute)

\* line 32: df["prev_ts"].isna() | (df["gap_min"] > gap_minutes), at row i; a
\* comparison with NaN is False
new_session(df, gap, i) ==
    \/ prev_isna(df, i)
    \/ ~prev_isna(df, i) /\ GapExceeds(gap_min(df, i), gap)

\* line 35: df.groupby("visitorid")["new_session"].cumsum(), at row i
session_num(df, gap, i) ==
    Cardinality({j \in 1..i : df[j].visitorid = df[i].visitorid /\ new_session(df, gap, j)})

\* lines 13-44
build_sessions(evts, gap) ==
    LET df == SortValues(evts)
    IN  [i \in 1..Len(df) |->
            [visitorid |-> df[i].visitorid,
             timestamp |-> df[i].timestamp,
             event |-> df[i].event,
             itemid |-> df[i].itemid,
             session_id |-> Str(df[i].visitorid) \o <<"_">> \o Str(session_num(df, gap, i))]]

InitSessions ==
    /\ pc = "sessions"
    /\ events \in SeqsUpTo(EventRows, MaxEvents)
    /\ gap_minutes \in GapMinutes
    /\ sessions = <<>>
    /\ CooccurIdle
    /\ CountersEmpty
    /\ NoBuildInputs
    /\ BuildIdle
    /\ OuterIdle

\* a call build_sessions(events, gap_minutes)
BuildSessions ==
    /\ pc = "sessions"
    /\ sessions' = build_sessions(events, gap_minutes)
    /\ pc' = "sessions_done"
    /\ UNCHANGED <<events, gap_minutes, cooccurVars, counterVars, inputVars, buildVars,
                   outerVars>>

NextSessions == BuildSessions

SpecSessions == InitSessions /\ [][NextSessions]_vars

\* how often a row (without its session_id) occurs in a DataFrame
Occurrences(rows, r) ==
    Cardinality({i \in 1..Len(rows) :
                     /\ rows[i].visitorid = r.visitorid
                     /\ rows[i].timestamp = r.timestamp
                     /\ rows[i].event = r.event
                     /\ rows[i].itemid = r.itemid})

\* the gap before row j, in milliseconds, is within the limit
WithinGap(j) ==
    sessions[j].timestamp - sessions[j - 1].timestamp <= gap_minutes * 60000

\* C13: build_sessions returns the events, each once, ordered by visitor and
\* then by timestamp.  Two consecutive events of one visitor have the same
\* session_id exactly when their gap is not greater than gap_minutes; so two
\* events of one visitor share a session_id exactly when no gap between them is
\* greater.  A visitor's first event has a session_id no earlier row has, and
\* events of different visitors never share a session_id.
C13_GapSplitsSessions ==
    pc = "sessions_done" =>
        /\ Len(sessions) = Len(events)
        /\ \A r \in EventRows : Occurrences(sessions, r) = Occurrences(events, r)
        /\ \A i \in 1..Len(sessions), j \in 1..Len(sessions) :
               i < j =>
                   /\ sessions[i].visitorid <= sessions[j].visitorid
                   /\ sessions[i].visitorid = sessions[j].visitorid =>
                          /\ sessions[i].timestamp <= sessions[j].timestamp
                          /\ (sessions[i].session_id = sessions[j].session_id)
                                 <=> \A k \in (i + 1)..j : WithinGap(k)
                   /\ sessions[i].visitorid # sessions[j].visitorid =>
                          sessions[i].session_id # sessions[j].session_id
        /\ \A j \in 2..Len(sessions) :
               sessions[j].visitorid = sessions[j - 1].visitorid =>
                   ((sessions[j].session_id = sessions[j - 1].session_id) <=> WithinGap(j))
        /\ \A j \in 1..Len(sessions) :
               (j = 1 \/ sessions[j].visitorid # sessions[j - 1].visitorid) =>
                   \A i \in 1..(j - 1) : sessions[i].session_id # sessions[j].session_id

\* three events of one visitor, given out of timestamp order: a gap of exactly
\* gap_minutes kept the session, a gap one millisecond longer started a new one
C13_Witness ==
    /\ pc = "sessions_done"
    /\ gap_minutes = 1
    /\ Len(events) = 3
    /\ events[1].timestamp = 120001
    /\ \A i \in 1..3 : sessions[i].visitorid = 1
    /\ sessions[1].timestamp = 0
    /\ sessions[2].timestamp = 60000
    /\ sessions[3].timestamp = 120001
    /\ sessions[1].session_id = <<"1", "_", "1">>
    /\ sessions[2].session_id = <<"1", "_", "1">>
    /\ sessions[3].session_id = <<"1", "_", "2">>

=============================================================================
